---------------------------- MODULE Spec2Model ----------------------------
(***************************************************************************)
(* Model of the duplex voice session hook useLiveSession                   *)
(* (src/hooks/useLiveSession.ts).                                          *)
(*                                                                         *)
(* The hook runs on one JavaScript event loop: every handler (a user call, *)
(* a transport callback, a timer, a promise continuation, an audio event)  *)
(* runs to completion, so each is one action.  What is concurrent is the   *)
(* order in which the user, the transport, the timers and the audio device *)
(* deliver their events.  Every attemptConnection() invocation that passes *)
(* its guard gets a fresh number a; its audio context, microphone stream,  *)
(* capture pipeline, meter loop and transport session are all named a.     *)
(***************************************************************************)
EXTENDS Integers, Sequences, FiniteSets

\* ---------------------------------------------------------------- bounds
\* Spec, the session life cycle:
MaxAttempts == 2      \* attemptConnection() invocations that pass the guard
MaxSources == 1       \* inbound audio payloads (buffer sources created)
MaxClock == 1         \* device clock ticks
MaxDur == 1           \* longest buffer duration, in clock ticks
MaxLevel == 1         \* loudest analyser reading (levels are 0..MaxLevel)
MaxFrames == 1        \* frames of one meter loop, its first call included
\* SpecRetry, the reconnection controller:
RetryAttempts == 2
\* SpecRace, the cancellation races:
RaceAttempts == 2
\* SpecPlay, the playback scheduler:
PlayAttempts == 2
PlaySources == 3
PlayClock == 2
PlayDur == 2
\* SpecTeardown, disconnect() from every kind of state:
TeardownAttempts == 2
TeardownSources == 1
TeardownFrames == 2
\* SpecControl, the control surface:
ControlAttempts == 2
\* SpecCapture, the capture path:
CaptureAttempts == 2
CaptureSent == 1      \* captured frames forwarded on one session
\* SpecMeter, the mute flag and the level meter:
MeterAttempts == 1
MeterFrames == 5      \* frames of one meter loop, its first call included
MeterSent == 1        \* captured frames forwarded on one session
MeterSources == 1     \* inbound audio payloads
\* SpecCmd, the command channel:
CmdAttempts == 2
CmdSources == 1
BudgetAttempts == 6    \* attempts in all, the timers' included
BudgetCycles == 2      \* attempts that a connect() of the user may start
MaxCalls == 2         \* command invocations (ids 1..MaxCalls)
MaxBatch == 2         \* invocations carried by one message

\* ------------------------------------------------------ program constants
MAX_RETRIES == 3
THROTTLE == 5         \* every THROTTLE-th frame publishes the levels

Max(x, y) == IF x >= y THEN x ELSE y

Att == 1..Max(Max(Max(MaxAttempts, RaceAttempts), Max(RetryAttempts, PlayAttempts)),
              Max(Max(ControlAttempts, CaptureAttempts),
                  Max(Max(CmdAttempts, TeardownAttempts),
                      Max(MeterAttempts, BudgetAttempts))))
Src == 1..Max(Max(Max(MaxSources, PlaySources), Max(TeardownSources, MeterSources)),
              CmdSources)
Calls == 1..MaxCalls

ErrUnreachable == "System Unreachable"
ErrConnFailed == "Connection Failed"
ErrMalfunction == "System Malfunction"
NoError == "null"
GenerateSystem == "generate_system"

VARIABLES
    \* React state
    isConnected, voiceState, error, isMuted, volume,
    \* refs
    volumeRef, isMutedRef,
    isReady, shouldBeConnected, activeSession, retryCount,
    audioContextRef, mediaStreamRef, processorRef, inputSourceRef,
    inputAnalyserRef, outputAnalyserRef,
    audioQueue, nextStartTime, isPlaying, rafId,
    \* attemptConnection invocations and what each one owns
    nAtt, pc, ctxState, ctxTime, stream, loop, frameCount,
    \* transport sessions, with the captured frames forwarded on each
    sst, promise, closeOnResolve, warm, sent,
    \* the command channel: per invocation id, the invocations received with
    \* intent, the calls of the external handler and the acknowledgments
    \* sent back
    functionCalls, onCommandCalls, toolResponses,
    \* timers and buffer sources
    retryTimers, catchTimers, src, nSrc,
    \* history: the last call of the user, the attempts that were in
    \* flight when the user called disconnect(), and the invocations of
    \* attemptConnection by a timer since the last connect() that took effect
    lastCall, cancelled, reinvoked

vars == << isConnected, voiceState, error, isReady, shouldBeConnected,
           activeSession, retryCount, audioContextRef, mediaStreamRef,
           processorRef, inputSourceRef, inputAnalyserRef, outputAnalyserRef,
           audioQueue, nextStartTime, isPlaying, rafId,
           nAtt, pc, ctxState, ctxTime, stream, loop,
           sst, promise, closeOnResolve, warm,
           retryTimers, catchTimers, src, nSrc, lastCall,
           cancelled, reinvoked,
           isMuted, volume, volumeRef, isMutedRef, frameCount, sent,
           functionCalls, onCommandCalls, toolResponses >>

\* The state as one record, so that a handler that calls another
\* (disconnect() inside on-error, attemptConnection() inside a timer) is the
\* composition of the two.
Cur ==
    [ isConnected |-> isConnected, voiceState |-> voiceState, error |-> error,
      isReady |-> isReady, shouldBeConnected |-> shouldBeConnected,
      activeSession |-> activeSession, retryCount |-> retryCount,
      audioContextRef |-> audioContextRef, mediaStreamRef |-> mediaStreamRef,
      processorRef |-> processorRef, inputSourceRef |-> inputSourceRef,
      inputAnalyserRef |-> inputAnalyserRef,
      outputAnalyserRef |-> outputAnalyserRef,
      audioQueue |-> audioQueue, nextStartTime |-> nextStartTime,
      isPlaying |-> isPlaying, rafId |-> rafId,
      nAtt |-> nAtt, pc |-> pc, ctxState |-> ctxState, ctxTime |-> ctxTime,
      stream |-> stream, loop |-> loop,
      sst |-> sst, promise |-> promise, closeOnResolve |-> closeOnResolve,
      warm |-> warm,
      retryTimers |-> retryTimers, catchTimers |-> catchTimers,
      src |-> src, nSrc |-> nSrc, lastCall |-> lastCall,
      cancelled |-> cancelled, reinvoked |-> reinvoked,
      isMuted |-> isMuted, volume |-> volume, volumeRef |-> volumeRef,
      isMutedRef |-> isMutedRef, frameCount |-> frameCount, sent |-> sent,
      functionCalls |-> functionCalls, onCommandCalls |-> onCommandCalls,
      toolResponses |-> toolResponses ]

Commit(r) ==
    /\ isConnected' = r.isConnected
    /\ voiceState' = r.voiceState
    /\ error' = r.error
    /\ isReady' = r.isReady
    /\ shouldBeConnected' = r.shouldBeConnected
    /\ activeSession' = r.activeSession
    /\ retryCount' = r.retryCount
    /\ audioContextRef' = r.audioContextRef
    /\ mediaStreamRef' = r.mediaStreamRef
    /\ processorRef' = r.processorRef
    /\ inputSourceRef' = r.inputSourceRef
    /\ inputAnalyserRef' = r.inputAnalyserRef
    /\ outputAnalyserRef' = r.outputAnalyserRef
    /\ audioQueue' = r.audioQueue
    /\ nextStartTime' = r.nextStartTime
    /\ isPlaying' = r.isPlaying
    /\ rafId' = r.rafId
    /\ nAtt' = r.nAtt
    /\ pc' = r.pc
    /\ ctxState' = r.ctxState
    /\ ctxTime' = r.ctxTime
    /\ stream' = r.stream
    /\ loop' = r.loop
    /\ sst' = r.sst
    /\ promise' = r.promise
    /\ closeOnResolve' = r.closeOnResolve
    /\ warm' = r.warm
    /\ retryTimers' = r.retryTimers
    /\ catchTimers' = r.catchTimers
    /\ src' = r.src
    /\ nSrc' = r.nSrc
    /\ lastCall' = r.lastCall
    /\ cancelled' = r.cancelled
    /\ reinvoked' = r.reinvoked
    /\ isMuted' = r.isMuted
    /\ volume' = r.volume
    /\ volumeRef' = r.volumeRef
    /\ isMutedRef' = r.isMutedRef
    /\ frameCount' = r.frameCount
    /\ sent' = r.sent
    /\ functionCalls' = r.functionCalls
    /\ onCommandCalls' = r.onCommandCalls
    /\ toolResponses' = r.toolResponses

NoSrc == [ctx |-> 0, start |-> 0, end |-> 0, st |-> "none"]

\* The level pair { input: 0, output: 0 }.
Silence == [input |-> 0, output |-> 0]

Init ==
    /\ isConnected = FALSE
    /\ voiceState = "idle"
    /\ error = NoError
    /\ isReady = FALSE
    /\ shouldBeConnected = FALSE
    /\ activeSession = 0
    /\ retryCount = 0
    /\ audioContextRef = 0
    /\ mediaStreamRef = 0
    /\ processorRef = 0
    /\ inputSourceRef = 0
    /\ inputAnalyserRef = 0
    /\ outputAnalyserRef = 0
    /\ audioQueue = << >>
    /\ nextStartTime = 0
    /\ isPlaying = FALSE
    /\ rafId = 0
    /\ nAtt = 0
    /\ pc = [a \in Att |-> "none"]
    /\ ctxState = [a \in Att |-> "none"]
    /\ ctxTime = [a \in Att |-> 0]
    /\ stream = [a \in Att |-> "none"]
    /\ loop = [a \in Att |-> FALSE]
    /\ sst = [a \in Att |-> "none"]
    /\ promise = [a \in Att |-> "none"]
    /\ closeOnResolve = [a \in Att |-> FALSE]
    /\ warm = [a \in Att |-> FALSE]
    /\ retryTimers = 0
    /\ catchTimers = 0
    /\ src = [i \in Src |-> NoSrc]
    /\ nSrc = 0
    /\ lastCall = "none"
    /\ cancelled = {}
    /\ reinvoked = 0
    /\ isMuted = FALSE
    /\ volume = Silence
    /\ volumeRef = Silence
    /\ isMutedRef = FALSE
    /\ frameCount = [a \in Att |-> 0]
    /\ sent = [a \in Att |-> 0]
    /\ functionCalls = [c \in Calls |-> 0]
    /\ onCommandCalls = [c \in Calls |-> 0]
    /\ toolResponses = [c \in Calls |-> 0]


\* ------------------------------------------------------------- helpers
Range(q) == { q[i] : i \in 1..Len(q) }

RemoveFirst(q, x) ==
    LET idx == IF x \in Range(q)
               THEN CHOOSE i \in 1..Len(q) :
                        q[i] = x /\ \A j \in 1..(i - 1) : q[j] # x
               ELSE 0
    IN  IF idx = 0 THEN q
        ELSE SubSeq(q, 1, idx - 1) \o SubSeq(q, idx + 1, Len(q))

\* session.close() on the session of attempt a: the socket starts closing and
\* its on-close callback is delivered later.
CloseSession(r, a) ==
    [r EXCEPT !.sst[a] = IF @ = "open" THEN "closing" ELSE @]

\* ------------------------------------------------------------ disconnect
\* A teardown that clears the two flags and releases nothing.
Disconnect_FlagsOnly(r) ==
    [r EXCEPT !.shouldBeConnected = FALSE, !.isReady = FALSE]

\* A teardown that releases whatever any attempt holds, referenced or not.
Disconnect_ReleaseAll(r) ==
    [r EXCEPT !.shouldBeConnected = FALSE, !.isReady = FALSE,
              !.activeSession = 0, !.isConnected = FALSE,
              !.voiceState = "idle", !.volume = Silence,
              !.volumeRef = Silence,
              !.rafId = 0, !.processorRef = 0, !.inputSourceRef = 0,
              !.mediaStreamRef = 0, !.audioContextRef = 0,
              !.sst = [a \in Att |-> IF @[a] = "open" THEN "closing" ELSE @[a]],
              !.stream = [a \in Att |-> IF @[a] = "live" THEN "stopped" ELSE @[a]],
              !.ctxState = [a \in Att |-> IF @[a] = "running" THEN "closed" ELSE @[a]],
              !.loop = [a \in Att |-> FALSE],
              !.src = [i \in Src |-> IF @[i].st = "scheduled"
                                     THEN [@[i] EXCEPT !.st = "stopped"]
                                     ELSE @[i]],
              !.audioQueue = << >>, !.isPlaying = FALSE, !.nextStartTime = 0]

\* disconnect(), lines 61-119, as a function of the state.
Disconnect(r) ==
    LET r1 == [r EXCEPT !.shouldBeConnected = FALSE, !.isReady = FALSE]
        r2 == IF r1.activeSession # 0
              THEN [CloseSession(r1, r1.activeSession) EXCEPT !.activeSession = 0]
              ELSE r1
        r3 == [r2 EXCEPT !.isConnected = FALSE, !.voiceState = "idle",
                         !.volume = Silence, !.volumeRef = Silence]
        r4 == IF r3.rafId # 0
              THEN [r3 EXCEPT !.loop[r3.rafId] = FALSE, !.rafId = 0]
              ELSE r3
        r5 == [r4 EXCEPT !.processorRef = 0, !.inputSourceRef = 0]
        r6 == IF r5.mediaStreamRef # 0
              THEN [r5 EXCEPT !.stream[r5.mediaStreamRef] = "stopped",
                              !.mediaStreamRef = 0]
              ELSE r5
        r7 == IF r6.audioContextRef # 0
              THEN [r6 EXCEPT !.ctxState[r6.audioContextRef] = "closed",
                              !.audioContextRef = 0]
              ELSE r6
        r8 == [r7 EXCEPT
                 !.src = [i \in Src |->
                            IF i \in Range(r7.audioQueue)
                            THEN [r7.src[i] EXCEPT !.st = "stopped"]
                            ELSE r7.src[i]],
                 !.audioQueue = << >>]
    IN  [r8 EXCEPT !.isPlaying = FALSE, !.nextStartTime = 0]

\* ----------------------------------------------------- attemptConnection
\* attemptConnection() up to its first suspension, lines 131-147 (and, when
\* the new context is not suspended, the analysers and the getUserMedia call,
\* lines 149-170).
SetAnalysers(r, a) ==
    [r EXCEPT !.inputAnalyserRef = a, !.outputAnalyserRef = a]

AttemptConnection(r, suspended) ==
    IF ~r.shouldBeConnected THEN r
    ELSE LET a == r.nAtt + 1
             r1 == [r EXCEPT !.nAtt = a, !.audioContextRef = a,
                             !.ctxState[a] = "running"]
         IN  IF suspended
             THEN [r1 EXCEPT !.pc[a] = "resume"]
             ELSE [SetAnalysers(r1, a) EXCEPT !.pc[a] = "gum"]

\* The input level a frame reports, line 415.
InputLevel(r, inVol) == IF r.isMutedRef THEN 0 ELSE inVol

\* The first updateVolume() call and each animation frame, lines 397-422:
\* inV and outV are what the two analysers measure.
\* A meter that publishes every sample.
UpdateVolume_Unthrottled(r, a, inV, outV) ==
    IF r.audioContextRef = 0 THEN [r EXCEPT !.loop[a] = FALSE]
    ELSE LET inVol == IF r.inputAnalyserRef # 0 THEN inV ELSE 0
             outVol == IF r.outputAnalyserRef # 0 THEN outV ELSE 0
             levels == [input |-> InputLevel(r, inVol), output |-> outVol]
         IN  [r EXCEPT !.volumeRef = levels, !.frameCount[a] = @ + 1,
                       !.volume = levels,
                       !.loop[a] = TRUE, !.rafId = a]

UpdateVolume(r, a, inV, outV) ==
    IF r.audioContextRef = 0
    THEN [r EXCEPT !.loop[a] = FALSE]
    ELSE LET inVol == IF r.inputAnalyserRef # 0 THEN inV ELSE 0
             outVol == IF r.outputAnalyserRef # 0 THEN outV ELSE 0
             levels == [input |-> InputLevel(r, inVol), output |-> outVol]
             n == r.frameCount[a] + 1
         IN  [r EXCEPT !.volumeRef = levels,
                       !.frameCount[a] = n,
                       !.volume = IF n % THROTTLE = 0 THEN levels ELSE @,
                       !.loop[a] = TRUE, !.rafId = a]

\* The continuation of getUserMedia, lines 172-423.  The analysers were
\* wired in this turn and have measured nothing when updateVolume() first
\* reads them.
AfterGetUserMedia(r, a) ==
    IF ~r.shouldBeConnected
    THEN [r EXCEPT !.stream[a] = "stopped", !.ctxState[a] = "closed",
                   !.pc[a] = "done"]
    ELSE LET r1 == [r EXCEPT !.mediaStreamRef = a, !.stream[a] = "live",
                             !.inputSourceRef = a, !.processorRef = a,
                             !.sst[a] = "connecting",
                             !.promise[a] = "pending",
                             !.pc[a] = "done"]
         IN  UpdateVolume(r1, a, 0, 0)

\* A catch that treats the failure as a transport failure: counted, and
\* retried after the backoff.
InitCatch_Retries(r, a) ==
    IF r.shouldBeConnected /\ r.retryCount < MAX_RETRIES
    THEN [r EXCEPT !.pc[a] = "done", !.retryCount = @ + 1,
                   !.catchTimers = @ + 1]
    ELSE [r EXCEPT !.pc[a] = "done"]

\* The catch of attemptConnection, lines 425-431.
InitCatch(r, a) ==
    LET r1 == [r EXCEPT !.pc[a] = "done"]
    IN  IF r1.shouldBeConnected
        THEN Disconnect([r1 EXCEPT !.error = ErrMalfunction])
        ELSE r1

\* --------------------------------------------------- transport callbacks
\* onopen, lines 223-241.
\* onopen without its setVoiceState of line 233.
OnOpenCb_KeepsVoiceState(r, a) ==
    IF ~r.shouldBeConnected
    THEN [r EXCEPT !.closeOnResolve[a] = TRUE]
    ELSE [r EXCEPT !.isConnected = TRUE, !.warm[a] = TRUE]

OnOpenCb_NoGuard(r, a) ==
    [r EXCEPT !.isConnected = TRUE, !.voiceState = "listening",
              !.warm[a] = TRUE]

OnOpenCb(r, a) ==
    IF ~r.shouldBeConnected
    THEN [r EXCEPT !.closeOnResolve[a] = TRUE]
    ELSE [r EXCEPT !.isConnected = TRUE, !.voiceState = "listening",
                   !.warm[a] = TRUE]

\* The warm-up timer, lines 236-240.
WarmUpCb(r) ==
    IF r.shouldBeConnected THEN [r EXCEPT !.isReady = TRUE] ELSE r

\* A turn-complete that announces the wait for the next audio.
TurnCompleteCb_Thinking(r) ==
    IF ~r.isPlaying THEN [r EXCEPT !.voiceState = "thinking"] ELSE r

\* A turn-complete that sets listening whatever is playing.
TurnCompleteCb_Always(r) == [r EXCEPT !.voiceState = "listening"]

\* The turn-complete part of onmessage, lines 245-247.
TurnCompleteCb(r) ==
    IF ~r.isPlaying THEN [r EXCEPT !.voiceState = "listening"] ELSE r

\* The audio part of onmessage, lines 251-286: a buffer of duration d is
\* scheduled on the context of attempt a.
ScheduleStart_IgnoreCursor(r, a) == r.ctxTime[a]

ScheduleStart(r, a) == Max(r.ctxTime[a], r.nextStartTime)

AudioCb(r, a, d) ==
    LET i == r.nSrc + 1
        startTime == ScheduleStart(r, a)
    IN  [r EXCEPT !.voiceState = "speaking", !.isPlaying = TRUE,
                  !.nSrc = i,
                  !.src[i] = [ctx |-> a, start |-> startTime,
                              end |-> startTime + d, st |-> "scheduled"],
                  !.nextStartTime = startTime + d,
                  !.audioQueue = Append(@, i)]

\* onmessage without its guard of line 243.
OnMessageCb_Unguarded(r, a, turnComplete, d) ==
    LET r1 == IF turnComplete THEN TurnCompleteCb(r) ELSE r
    IN  IF d > 0 THEN AudioCb(r1, a, d) ELSE r1

\* onmessage, lines 242-308 (the command channel apart).
OnMessageCb(r, a, turnComplete, d) ==
    IF ~r.shouldBeConnected THEN r
    ELSE LET r1 == IF turnComplete THEN TurnCompleteCb(r) ELSE r
         IN  IF d > 0 THEN AudioCb(r1, a, d) ELSE r1

\* session.sendToolResponse() on the session of attempt a, lines 296-304:
\* the acknowledgment goes out if that session's socket is open.
SendToolResponse(r, a, id) ==
    IF r.sst[a] = "open" THEN [r EXCEPT !.toolResponses[id] = @ + 1] ELSE r

\* The loop over msg.toolCall.functionCalls, lines 290-306.  An invocation
\* is [id, name, throws]: throws says that the external handler raises, and
\* the exception leaves the loop and the handler (nothing catches it).
RECURSIVE FunctionCallLoop(_, _, _)
FunctionCallLoop(r, a, calls) ==
    IF calls = << >> THEN r
    ELSE LET fc == Head(calls)
         IN  IF fc.name # GenerateSystem
             THEN FunctionCallLoop(r, a, Tail(calls))
             ELSE LET r1 == [r EXCEPT !.onCommandCalls[fc.id] = @ + 1]
                  IN  IF fc.throws THEN r1
                      ELSE FunctionCallLoop(SendToolResponse(r1, a, fc.id),
                                            a, Tail(calls))

\* onmessage for a message that carries a tool call, lines 242-243 and
\* 288-307.  functionCalls records the generate_system invocations the
\* message carried.
OnToolCallCb(r, a, calls) ==
    IF ~r.shouldBeConnected THEN r
    ELSE FunctionCallLoop(
             [r EXCEPT !.functionCalls = [c \in Calls |->
                 IF \E k \in 1..Len(calls) :
                        calls[k].id = c /\ calls[k].name = GenerateSystem
                 THEN @[c] + 1 ELSE @[c]]],
             a, calls)

\* An onended that sets listening and moves the cursor whether or not other
\* entries remain.
OnEndedCb_AlwaysResets(r, i) ==
    [r EXCEPT !.audioQueue = RemoveFirst(@, i),
              !.src[i].st = IF @ = "stopped" THEN "cancelled" ELSE "played",
              !.isPlaying = FALSE, !.voiceState = "listening",
              !.nextStartTime = r.ctxTime[r.src[i].ctx]]

\* source.onended, lines 277-285.
OnEndedCb(r, i) ==
    LET q == RemoveFirst(r.audioQueue, i)
        r1 == [r EXCEPT !.audioQueue = q,
                        !.src[i].st = IF @ = "stopped" THEN "cancelled"
                                      ELSE "played"]
    IN  IF Len(q) = 0
        THEN [r1 EXCEPT !.isPlaying = FALSE, !.voiceState = "listening",
                        !.nextStartTime = r.ctxTime[r.src[i].ctx]]
        ELSE r1

\* onclose, lines 309-315.
OnCloseCb(r) ==
    IF r.shouldBeConnected THEN Disconnect(r) ELSE r

\* The retry guard of onerror (line 321) and of sessionPromise.catch
\* (line 353).
CanRetry_OffByOne(r) == r.retryCount <= MAX_RETRIES

CanRetry(r) == r.retryCount < MAX_RETRIES

\* onerror, lines 316-337.

OnErrorCb(r) ==
    IF ~r.shouldBeConnected THEN r
    ELSE IF CanRetry(r)
         THEN [r EXCEPT !.retryCount = @ + 1, !.isReady = FALSE,
                        !.retryTimers = @ + 1]
         ELSE Disconnect([r EXCEPT !.error = ErrUnreachable])

\* The retry timer of onerror, lines 327-331.
\* attemptConnection() called by a timer: past its guard of line 132 it is
\* an automatic re-invocation of the provisioning routine.
Reinvoke(r, suspended) ==
    IF ~r.shouldBeConnected THEN r
    ELSE [AttemptConnection(r, suspended) EXCEPT !.reinvoked = @ + 1]

\* A retry timer that starts the new attempt unmuted, as connect() does.
RetryTimerCb_Unmutes(r, suspended) ==
    [Reinvoke([Disconnect(r) EXCEPT !.shouldBeConnected = TRUE], suspended)
        EXCEPT !.isMuted = FALSE, !.isMutedRef = FALSE]

RetryTimerCb(r, suspended) ==
    Reinvoke([Disconnect(r) EXCEPT !.shouldBeConnected = TRUE], suspended)

\* sessionPromise.then, lines 342-348, followed by the close that onopen
\* chained on the promise when it ran without intent (line 227).
ThenCb(r, a) ==
    LET r1 == IF r.shouldBeConnected
              THEN [r EXCEPT !.activeSession = a]
              ELSE CloseSession(r, a)
    IN  IF r1.closeOnResolve[a] THEN CloseSession(r1, a) ELSE r1

\* sessionPromise.catch, lines 349-361.
CatchCb(r) ==
    IF ~r.shouldBeConnected THEN r
    ELSE IF CanRetry(r)
         THEN [r EXCEPT !.retryCount = @ + 1, !.catchTimers = @ + 1]
         ELSE Disconnect([r EXCEPT !.error = ErrConnFailed])

\* toggleMute(), lines 57-59, with the render it causes and the effect of
\* lines 53-55, which copies the state into the ref.
ToggleMuteCall(r) ==
    [r EXCEPT !.isMuted = ~r.isMuted, !.isMutedRef = ~r.isMuted]

\* The guard of onaudioprocess, line 365.
DropFrame_IgnoreMute(r) == ~r.isReady \/ ~r.shouldBeConnected

\* The guard of line 365 without its test of ReadyFlag.
DropFrame_IgnoreReady(r) == r.isMutedRef \/ ~r.shouldBeConnected

DropFrame(r) == r.isMutedRef \/ ~r.isReady \/ ~r.shouldBeConnected

\* onaudioprocess, lines 364-393: the frame is encoded and sent on the
\* active session; a send that fails (the socket is no longer open) is
\* swallowed.
OnAudioProcessCb(r) ==
    IF DropFrame(r) THEN r
    ELSE IF r.activeSession # 0 /\ r.sst[r.activeSession] = "open"
         THEN [r EXCEPT !.sent[r.activeSession] = @ + 1]
         ELSE r

\* connect() without its guard of line 123.
ConnectCall_NoGuard(r, suspended) ==
    AttemptConnection([r EXCEPT !.error = NoError, !.isMuted = FALSE,
                                !.isMutedRef = FALSE,
                                !.shouldBeConnected = TRUE,
                                !.retryCount = 0, !.reinvoked = 0],
                      suspended)

\* connect() without the reset of line 129.
ConnectCall_KeepsCounter(r, suspended) ==
    IF r.shouldBeConnected THEN r
    ELSE AttemptConnection([r EXCEPT !.error = NoError, !.isMuted = FALSE,
                                     !.isMutedRef = FALSE,
                                     !.shouldBeConnected = TRUE,
                                     !.reinvoked = 0], suspended)

\* connect(), lines 121-434, with the render that follows setIsMuted(false).
ConnectCall(r, suspended) ==
    IF r.shouldBeConnected THEN r
    ELSE AttemptConnection([r EXCEPT !.error = NoError,
                                     !.isMuted = FALSE,
                                     !.isMutedRef = FALSE,
                                     !.shouldBeConnected = TRUE,
                                     !.retryCount = 0, !.reinvoked = 0],
                         suspended)


\* ---------------------------------------------------------------- actions
\* Each action is one handler run to completion.  The parameters maxAtt,
\* maxSrc, maxDur and maxClock are the bounds of the specification
\* that uses the action, and Susp the states a new audio context may start
\* in (TRUE: suspended, so that attemptConnection awaits resume()).

\* The user calls connect().
Connect(maxAtt, Susp) ==
    /\ shouldBeConnected \/ nAtt < maxAtt
    /\ \E suspended \in Susp :
          Commit([ConnectCall(Cur, suspended) EXCEPT
                     !.lastCall = IF shouldBeConnected THEN "connect (no-op)"
                                  ELSE "connect"])

\* The attempts whose transport open has not resolved yet.
InFlight == { a \in Att : pc[a] \in {"resume", "gum"} \/ promise[a] = "pending" }

\* The user calls disconnect() (or the component unmounts, lines 439-444).
\* With mark, the history variable cancelled records the attempts in flight.
UserDisconnect(mark) ==
    /\ mark \in BOOLEAN
    /\ Commit([Disconnect(Cur) EXCEPT
                  !.lastCall = "disconnect",
                  !.cancelled = IF mark THEN @ \cup InFlight ELSE @])

\* audioCtx.resume() resolves, lines 146-170.
ResumeOk(a) ==
    /\ pc[a] = "resume"
    /\ Commit([SetAnalysers(Cur, a) EXCEPT !.pc[a] = "gum"])

\* audioCtx.resume() or getUserMedia() rejects.
AcquireFail(a) ==
    /\ pc[a] \in {"resume", "gum"}
    /\ Commit(InitCatch(Cur, a))

\* getUserMedia() resolves.
GumOk(a) ==
    /\ pc[a] = "gum"
    /\ Commit(AfterGetUserMedia(Cur, a))

\* The transport reports the session of attempt a open.
OnOpen(a) ==
    /\ sst[a] = "connecting"
    /\ promise[a] = "pending"
    /\ Commit(OnOpenCb([Cur EXCEPT !.sst[a] = "open"], a))

\* The promise of client.live.connect() resolves with the session.
Resolve(a) ==
    /\ sst[a] = "open"
    /\ promise[a] = "pending"
    /\ Commit(ThenCb([Cur EXCEPT !.promise[a] = "resolved"], a))

\* The promise of client.live.connect() rejects.
Reject(a) ==
    /\ sst[a] = "connecting"
    /\ promise[a] = "pending"
    /\ Commit(CatchCb([Cur EXCEPT !.promise[a] = "rejected",
                                  !.sst[a] = "closed"]))

\* An inbound message on the session of attempt a: a turn-complete marker,
\* an audio payload of duration d, or both.  The remote end speaks only on a
\* session whose open has resolved, and may still be heard while a close()
\* of this side is on its way.
OnMessage(a, maxSrc, maxDur) ==
    /\ sst[a] \in {"open", "closing"}
    /\ promise[a] = "resolved"
    /\ \E turnComplete \in BOOLEAN, d \in 0..maxDur :
          /\ turnComplete \/ d > 0
          /\ (d > 0 /\ shouldBeConnected) => nSrc < maxSrc
          /\ Commit(OnMessageCb(Cur, a, turnComplete, d))

\* An inbound message that carries a tool call with one to maxBatch
\* invocations, each with a fresh id.  The caller of the hook supplies
\* onCommand (components/Interface/HUD.tsx, line 700).
Invocations(maxBatch) ==
    { calls \in UNION { [1..n -> [id : Calls,
                                  name : {GenerateSystem, "other"},
                                  throws : BOOLEAN]] : n \in 1..maxBatch } :
        /\ \A k \in 1..Len(calls) :
              /\ functionCalls[calls[k].id] = 0
              /\ onCommandCalls[calls[k].id] = 0
              /\ calls[k].name = "other" => ~calls[k].throws
        /\ \A k, l \in 1..Len(calls) : k < l => calls[k].id < calls[l].id }

OnToolCall(a, maxBatch) ==
    /\ sst[a] \in {"open", "closing"}
    /\ promise[a] = "resolved"
    /\ \E calls \in Invocations(maxBatch) :
          Commit(OnToolCallCb(Cur, a, calls))

\* The transport reports the session of attempt a closed: the remote end
\* closed it, or a close() of this side has completed.
OnClose(a) ==
    /\ sst[a] \in {"connecting", "open", "closing"}
    /\ Commit(OnCloseCb([Cur EXCEPT !.sst[a] = "closed"]))

\* The transport reports an error on the session of attempt a.
OnError(a) ==
    /\ sst[a] \in {"connecting", "open", "closing"}
    /\ Commit(OnErrorCb(Cur))

\* The warm-up timer of the session of attempt a expires.
WarmUp(a) ==
    /\ warm[a]
    /\ Commit(WarmUpCb([Cur EXCEPT !.warm[a] = FALSE]))

\* A backoff timer set by onerror expires.
RetryTimer(maxAtt, Susp) ==
    /\ retryTimers > 0
    /\ nAtt < maxAtt
    /\ \E suspended \in Susp :
          Commit(RetryTimerCb([Cur EXCEPT !.retryTimers = @ - 1], suspended))

\* A backoff timer set by sessionPromise.catch expires.
CatchTimer(maxAtt, Susp) ==
    /\ catchTimers > 0
    /\ shouldBeConnected => nAtt < maxAtt
    /\ \E suspended \in Susp :
          Commit(Reinvoke([Cur EXCEPT !.catchTimers = @ - 1], suspended))

\* An animation frame of the meter loop of attempt a.
MeterTick(a, maxLevel, maxFrames) ==
    /\ loop[a]
    /\ IF audioContextRef = 0
       THEN Commit(UpdateVolume(Cur, a, 0, 0))
       ELSE /\ frameCount[a] < maxFrames
            /\ \E inV, outV \in 0..maxLevel :
                  Commit(UpdateVolume(Cur, a, inV, outV))

\* The user calls toggleMute().
ToggleMute ==
    /\ isMuted \in BOOLEAN
    /\ Commit(ToggleMuteCall(Cur))

\* The processor of attempt a delivers a captured frame: it does so while
\* it is connected (disconnect() disconnects it and stops its stream
\* together, lines 90-101) and its context is running.
OnAudioProcess(a, maxSent) ==
    /\ stream[a] = "live"
    /\ ctxState[a] = "running"
    /\ \A s \in Att : OnAudioProcessCb(Cur).sent[s] <= maxSent
    /\ Commit(OnAudioProcessCb(Cur))

\* The ended event of buffer source i: it was stopped, or it has played to
\* its end.
OnEnded(i) ==
    /\ \/ src[i].st = "stopped"
       \/ /\ src[i].st = "scheduled"
          /\ ctxState[src[i].ctx] = "running"
          /\ ctxTime[src[i].ctx] >= src[i].end
    /\ Commit(OnEndedCb(Cur, i))

\* The device clock advances: every running context's currentTime with it.
Tick(maxClock) ==
    /\ \E a \in Att : ctxState[a] = "running"
    /\ \A a \in Att : ctxState[a] = "running" => ctxTime[a] < maxClock
    /\ Commit([Cur EXCEPT !.ctxTime = [a \in Att |->
                            IF ctxState[a] = "running" THEN @[a] + 1 ELSE @[a]]])

\* ---------------------------------------------------------- specifications
\* The session life cycle: provisioning, the transport callbacks, playback,
\* the timers and the user's connect() and disconnect().  toggleMute(), the
\* capture callback and the command channel are in SpecControl, SpecCapture,
\* SpecMeter and SpecCmd: they write only the mute flag, the forwarded
\* frames and the command counters, which no handler here reads but the
\* meter.
Next ==
    \/ Connect(MaxAttempts, BOOLEAN)
    \/ UserDisconnect(FALSE)
    \/ \E a \in Att : ResumeOk(a)
    \/ \E a \in Att : AcquireFail(a)
    \/ \E a \in Att : GumOk(a)
    \/ \E a \in Att : OnOpen(a)
    \/ \E a \in Att : Resolve(a)
    \/ \E a \in Att : Reject(a)
    \/ \E a \in Att : OnMessage(a, MaxSources, MaxDur)
    \/ \E a \in Att : OnClose(a)
    \/ \E a \in Att : OnError(a)
    \/ \E a \in Att : WarmUp(a)
    \/ RetryTimer(MaxAttempts, BOOLEAN)
    \/ CatchTimer(MaxAttempts, BOOLEAN)
    \/ \E a \in Att : MeterTick(a, MaxLevel, MaxFrames)
    \/ \E i \in Src : OnEnded(i)
    \/ Tick(MaxClock)

Spec == Init /\ [][Next]_vars

\* The reconnection controller: every handler that reads or writes
\* ConnectionIntent, RetryCounter, the session handle, the sessions or the
\* timers.  The handlers left out (inbound messages, buffer-ended events, the
\* warm-up timer, the meter loop, the clock) write none of these.
NextRetry ==
    \/ Connect(RetryAttempts, BOOLEAN)
    \/ UserDisconnect(FALSE)
    \/ \E a \in Att : ResumeOk(a)
    \/ \E a \in Att : AcquireFail(a)
    \/ \E a \in Att : GumOk(a)
    \/ \E a \in Att : OnOpen(a)
    \/ \E a \in Att : Resolve(a)
    \/ \E a \in Att : Reject(a)
    \/ \E a \in Att : OnClose(a)
    \/ \E a \in Att : OnError(a)
    \/ RetryTimer(RetryAttempts, BOOLEAN)
    \/ CatchTimer(RetryAttempts, BOOLEAN)

SpecRetry == Init /\ [][NextRetry]_vars

\* The playback scheduler: sessions that open, receive audio and are torn
\* down by the user, with the device clock running and every audio context
\* starting in the running state.  A session this side has closed may go on
\* delivering messages, and a stopped buffer its ended event, into the next
\* session.
NextPlay ==
    \/ Connect(PlayAttempts, {FALSE})
    \/ UserDisconnect(FALSE)
    \/ \E a \in Att : GumOk(a)
    \/ \E a \in Att : OnOpen(a)
    \/ \E a \in Att : Resolve(a)
    \/ \E a \in Att : OnMessage(a, PlaySources, PlayDur)
    \/ \E i \in Src : OnEnded(i)
    \/ Tick(PlayClock)

SpecPlay == Init /\ [][NextPlay]_vars

\* The control surface: the reconnection controller with toggleMute().
NextControl ==
    \/ Connect(ControlAttempts, BOOLEAN)
    \/ UserDisconnect(FALSE)
    \/ ToggleMute
    \/ \E a \in Att : ResumeOk(a)
    \/ \E a \in Att : AcquireFail(a)
    \/ \E a \in Att : GumOk(a)
    \/ \E a \in Att : OnOpen(a)
    \/ \E a \in Att : Resolve(a)
    \/ \E a \in Att : Reject(a)
    \/ \E a \in Att : OnClose(a)
    \/ \E a \in Att : OnError(a)
    \/ RetryTimer(ControlAttempts, BOOLEAN)
    \/ CatchTimer(ControlAttempts, BOOLEAN)

SpecControl == Init /\ [][NextControl]_vars

\* The capture path: sessions that open and warm up, captured frames and
\* the mute flag, against the user's calls.
NextCapture ==
    \/ Connect(CaptureAttempts, {FALSE})
    \/ UserDisconnect(FALSE)
    \/ ToggleMute
    \/ \E a \in Att : GumOk(a)
    \/ \E a \in Att : OnOpen(a)
    \/ \E a \in Att : Resolve(a)
    \/ \E a \in Att : WarmUp(a)
    \/ \E a \in Att : OnAudioProcess(a, CaptureSent)

SpecCapture == Init /\ [][NextCapture]_vars

\* The mute flag and the level meter: one pipeline with its captured
\* frames, animation frames and inbound audio, against toggleMute() and
\* disconnect().
NextMeter ==
    \/ Connect(MeterAttempts, {FALSE})
    \/ UserDisconnect(FALSE)
    \/ ToggleMute
    \/ \E a \in Att : GumOk(a)
    \/ \E a \in Att : OnOpen(a)
    \/ \E a \in Att : Resolve(a)
    \/ \E a \in Att : WarmUp(a)
    \/ \E a \in Att : OnAudioProcess(a, MeterSent)
    \/ \E a \in Att : OnMessage(a, MeterSources, MaxDur)
    \/ \E a \in Att : MeterTick(a, MaxLevel, MeterFrames)

SpecMeter == Init /\ [][NextMeter]_vars

\* The inbound channel: sessions that open and receive tool calls, audio
\* frames and turn-complete markers, against the user's calls.
NextCmd ==
    \/ Connect(CmdAttempts, {FALSE})
    \/ UserDisconnect(FALSE)
    \/ \E a \in Att : GumOk(a)
    \/ \E a \in Att : OnOpen(a)
    \/ \E a \in Att : Resolve(a)
    \/ \E a \in Att : OnToolCall(a, MaxBatch)
    \/ \E a \in Att : OnMessage(a, CmdSources, MaxDur)

SpecCmd == Init /\ [][NextCmd]_vars

\* disconnect() from every kind of state: idle, mid-provisioning (a
\* pending resume() or getUserMedia(), a pending open), connected and warm,
\* speaking, metering, and during the backoff after a transport error.
NextTeardown ==
    \/ Connect(TeardownAttempts, BOOLEAN)
    \/ UserDisconnect(FALSE)
    \/ \E a \in Att : ResumeOk(a)
    \/ \E a \in Att : GumOk(a)
    \/ \E a \in Att : OnOpen(a)
    \/ \E a \in Att : Resolve(a)
    \/ \E a \in Att : WarmUp(a)
    \/ \E a \in Att : OnMessage(a, TeardownSources, MaxDur)
    \/ \E a \in Att : OnError(a)
    \/ RetryTimer(TeardownAttempts, BOOLEAN)
    \/ \E a \in Att : MeterTick(a, MaxLevel, TeardownFrames)

SpecTeardown == Init /\ [][NextTeardown]_vars

\* The retry budget over two connect cycles: on-error events of sessions
\* that are still connecting and the backoff timers they set, against the
\* user's calls.
NextBudget ==
    \/ Connect(BudgetCycles, {FALSE})
    \/ UserDisconnect(FALSE)
    \/ \E a \in Att : GumOk(a)
    \/ \E a \in Att : OnError(a)
    \/ RetryTimer(BudgetAttempts, {FALSE})

SpecBudget == Init /\ [][NextBudget]_vars

\* Cancellation races: the user's calls against the suspensions of
\* attemptConnection and the transport open, with the attempts in flight
\* at each disconnect() recorded.
NextRace ==
    \/ Connect(RaceAttempts, BOOLEAN)
    \/ UserDisconnect(TRUE)
    \/ \E a \in Att : ResumeOk(a)
    \/ \E a \in Att : AcquireFail(a)
    \/ \E a \in Att : GumOk(a)
    \/ \E a \in Att : OnOpen(a)
    \/ \E a \in Att : Resolve(a)
    \/ \E a \in Att : Reject(a)
    \/ \E a \in Att : OnClose(a)
    \/ \E a \in Att : OnError(a)
    \/ RetryTimer(RaceAttempts, BOOLEAN)
    \/ CatchTimer(RaceAttempts, BOOLEAN)

SpecRace == Init /\ [][NextRace]_vars


\* ------------------------------------------------------------ predicates
\* Every device resource reference is absent and every resource any attempt
\* acquired has been released.
RefsAbsent ==
    /\ audioContextRef = 0
    /\ mediaStreamRef = 0
    /\ processorRef = 0
    /\ inputSourceRef = 0
    /\ rafId = 0

ResourcesReleased ==
    /\ RefsAbsent
    /\ \A a \in Att : ctxState[a] # "running" /\ stream[a] # "live" /\ ~loop[a]

\* The state a full teardown leaves.
TornDown ==
    /\ activeSession = 0
    /\ RefsAbsent
    /\ audioQueue = << >>
    /\ voiceState = "idle"
    /\ ~isConnected
    /\ ~isReady

\* What disconnect() leaves also when the handler that called it goes on to
\* start a new attempt (the retry timer).
TeardownRan ==
    /\ activeSession = 0
    /\ mediaStreamRef = 0 /\ processorRef = 0 /\ inputSourceRef = 0
    /\ rafId = 0
    /\ audioQueue = << >>
    /\ ~isConnected
    /\ ~isReady

\* Nothing is pending: no attempt is suspended, no open promise is
\* unresolved, no timer is set, no close is on its way and no ended event of
\* a stopped buffer is outstanding.
Settled ==
    /\ \A a \in Att : /\ pc[a] \in {"none", "done"}
                      /\ promise[a] # "pending"
                      /\ sst[a] # "closing"
                      /\ ~warm[a]
    /\ retryTimers = 0
    /\ catchTimers = 0
    /\ \A i \in Src : src[i].st # "stopped"

\* The sessions the transport holds open and this side has not closed.
OpenSessions == { a \in Att : sst[a] = "open" }

\* ---------------------------------------------------------------- claims

\* C1: once the last call has settled, the session handle is absent if and
\* only if ConnectionIntent is false; if the last call was disconnect(),
\* intent is false, the handle is absent and no opened session is left
\* unclosed.
C1_SettledHandleIffIntent ==
    Settled =>
        /\ (activeSession = 0) <=> ~shouldBeConnected
        /\ lastCall = "disconnect" =>
              /\ ~shouldBeConnected
              /\ activeSession = 0
              /\ OpenSessions = {}

\* C2: while ConnectionIntent is false the session handle is absent, every
\* device resource is released, the playback queue is empty and VoiceState
\* is idle, late callbacks of the torn-down pipeline included.
C2_IntentFalseTornDown ==
    ~shouldBeConnected =>
        /\ activeSession = 0
        /\ ResourcesReleased
        /\ audioQueue = << >>
        /\ voiceState = "idle"

\* C3: a session whose open was in flight when disconnect() was called is
\* never installed as the active handle, and once its open has resolved it
\* has been closed.
C3_CancelledNeverInstalled ==
    \A a \in cancelled :
        /\ activeSession # a
        /\ promise[a] = "resolved" => sst[a] \in {"closing", "closed"}

\* C4: at most one transport session is open and not closed, and when a
\* handle is installed no other session is open.
C4_OneOpenSession ==
    /\ Cardinality(OpenSessions) <= 1
    /\ activeSession # 0 => OpenSessions \subseteq {activeSession}

\* C5: after a disconnect() of the user ConnectionIntent stays false until
\* the next connect().
C5_IntentFalseAfterDisconnect ==
    lastCall = "disconnect" => ~shouldBeConnected


\* C6: RetryCounter is an integer in [0, MAX_RETRIES] in every reachable
\* state.
C6_RetryCounterBounded == retryCount \in 0..MAX_RETRIES

\* A failure was handled with the counter at its bound.
C6_Witness ==
    retryCount = MAX_RETRIES /\ error \in {ErrUnreachable, ErrConnFailed}

\* C7: each of the first three transport failures of a connect cycle (an
\* on-error event or a rejected open, handled with intent) increments the
\* counter and schedules one reconnection attempt; the fourth sets the error
\* "System Unreachable", tears everything down and clears ConnectionIntent.
TransportFailure == \E a \in Att : OnError(a) \/ Reject(a)

C7_FourthFailureUnreachable ==
    [][ (shouldBeConnected /\ TransportFailure) =>
            IF retryCount < MAX_RETRIES
            THEN /\ retryCount' = retryCount + 1
                 /\ retryTimers' + catchTimers' = retryTimers + catchTimers + 1
                 /\ shouldBeConnected'
                 /\ error' = error
            ELSE /\ error' = ErrUnreachable
                 /\ TornDown'
                 /\ ~shouldBeConnected'
                 /\ retryCount' = retryCount ]_vars

\* C8: while the retry-exhaustion error is set (it is cleared only by
\* connect()), ConnectionIntent is false: no pending backoff timer starts a
\* further provisioning attempt.
C8_NoRecoveryAfterExhaustion ==
    error = ErrUnreachable => ~shouldBeConnected

\* C9: VoiceState changes only idle -> listening (on-open with intent),
\* listening -> speaking (an audio frame queued), speaking -> listening
\* (the playback queue drains to empty) and any -> idle (full teardown).
C9_VoiceStateTransitions ==
    [][ voiceState' # voiceState =>
          \/ /\ voiceState = "idle" /\ voiceState' = "listening"
             /\ shouldBeConnected
             /\ \E a \in Att : OnOpen(a)
          \/ /\ voiceState = "listening" /\ voiceState' = "speaking"
             /\ Len(audioQueue') = Len(audioQueue) + 1
          \/ /\ voiceState = "speaking" /\ voiceState' = "listening"
             /\ audioQueue # << >> /\ audioQueue' = << >>
          \/ /\ voiceState' = "idle"
             /\ TeardownRan' ]_vars

\* C10: within a session, in arrival order, the scheduled start times of
\* the playback entries are non-decreasing and each entry starts no earlier
\* than the entry before it ends.  (Entries are numbered in arrival order;
\* an entry stopped by a teardown is no playback entry any more.)
Entry(i) == src[i].st \in {"scheduled", "played"}

C10_PlaybackWindowsOrdered ==
    \A i, j \in 1..nSrc :
        (i < j /\ src[i].ctx = src[j].ctx /\ Entry(i) /\ Entry(j)) =>
            /\ src[i].start <= src[j].start
            /\ src[i].end <= src[j].start

\* A burst: an entry scheduled behind one that is still to play, later than
\* the clock of its arrival.
C10_Witness ==
    \E i, j \in 1..nSrc :
        /\ i < j /\ src[i].ctx = src[j].ctx /\ Entry(i) /\ Entry(j)
        /\ src[j].start = src[i].end
        /\ src[j].start > ctxTime[src[j].ctx]

\* C11: disconnect(), called in any state, synchronously yields
\* ConnectionIntent = false, ReadyFlag = false, the session handle absent
\* (and the session it named closed), isConnected = false, VoiceState =
\* idle, both levels 0, the playback queue empty with every buffer that was
\* queued stopped, and every device resource reference absent.
C11_DisconnectPostState ==
    [][ UserDisconnect(FALSE) =>
          /\ ~shouldBeConnected' /\ ~isReady'
          /\ activeSession' = 0
          /\ activeSession # 0 => sst'[activeSession] \in {"closing", "closed"}
          /\ ~isConnected'
          /\ voiceState' = "idle"
          /\ volume' = Silence /\ volumeRef' = Silence
          /\ audioQueue' = << >>
          /\ \A i \in Range(audioQueue) : src'[i].st = "stopped"
          /\ RefsAbsent' ]_vars

\* disconnect() was called while speaking, with a session installed and
\* the meter reporting sound.
C11_Witness ==
    /\ lastCall = "disconnect" /\ ~shouldBeConnected /\ TornDown
    /\ volume = Silence /\ volumeRef = Silence
    /\ \E i \in Src : src[i].st = "stopped"
    /\ \E a \in Att : sst[a] = "closing" /\ frameCount[a] > 1

C13_ConnectNoOp ==
    [][ (shouldBeConnected /\ Connect(ControlAttempts, BOOLEAN)) =>
          /\ nAtt' = nAtt /\ pc' = pc /\ audioContextRef' = audioContextRef
          /\ error' = error
          /\ retryCount' = retryCount
          /\ isMuted' = isMuted /\ isMutedRef' = isMutedRef
          /\ activeSession' = activeSession
          /\ voiceState' = voiceState
          /\ shouldBeConnected' ]_vars

\* connect() was called with intent, while muted and after a failure was
\* counted, and there is still one attempt only.
C13_Witness ==
    /\ lastCall = "connect (no-op)"
    /\ isMuted /\ retryCount > 0 /\ nAtt = 1

\* C14: connect() called while ConnectionIntent is false sets
\* ConnectionIntent, clears the last error, resets RetryCounter to 0, clears
\* MuteFlag and starts exactly one provisioning attempt.
C14_ConnectEffective ==
    [][ (~shouldBeConnected /\ Connect(ControlAttempts, BOOLEAN)) =>
          /\ shouldBeConnected'
          /\ error' = NoError
          /\ retryCount' = 0
          /\ ~isMuted' /\ ~isMutedRef'
          /\ nAtt' = nAtt + 1
          /\ pc'[nAtt + 1] \in {"resume", "gum"}
          /\ \A a \in Att : a # nAtt + 1 => pc'[a] = pc[a] ]_vars

\* connect() has started the second attempt, after a cycle that ended with
\* a failure.
C14_Witness ==
    /\ lastCall = "connect" /\ shouldBeConnected
    /\ nAtt = 2 /\ pc[2] \in {"resume", "gum"}
    /\ error = NoError /\ retryCount = 0 /\ ~isMuted
    /\ sst[1] = "closed"

\* C15: while MuteFlag is set no captured frame is forwarded and every
\* level sample the meter computes or publishes has input 0; output level
\* reporting, playback scheduling and VoiceState do not depend on the flag;
\* toggleMute() flips the flag, changes nothing else, and the next captured
\* frame obeys the new value.
MuteFlip(r) == [r EXCEPT !.isMuted = ~r.isMuted, !.isMutedRef = ~r.isMutedRef]

\* The handlers of playback and the output level give the same result
\* whichever value the flag has.
MuteUnreadByPlayback ==
    /\ \A a \in Att, turnComplete \in BOOLEAN, d \in 0..MaxDur :
          (d = 0 \/ nSrc < MeterSources) =>
              OnMessageCb(MuteFlip(Cur), a, turnComplete, d)
                  = MuteFlip(OnMessageCb(Cur, a, turnComplete, d))
    /\ \A i \in Src :
          src[i].st \in {"scheduled", "stopped"} =>
              OnEndedCb(MuteFlip(Cur), i) = MuteFlip(OnEndedCb(Cur, i))
    /\ \A a \in Att, inV, outV \in 0..MaxLevel :
          LET muted == UpdateVolume([Cur EXCEPT !.isMutedRef = TRUE], a, inV, outV)
              unmuted == UpdateVolume([Cur EXCEPT !.isMutedRef = FALSE], a, inV, outV)
          IN  /\ muted.volumeRef.output = unmuted.volumeRef.output
              /\ muted.volume.output = unmuted.volume.output
              /\ (audioContextRef # 0 /\ outputAnalyserRef # 0) =>
                     muted.volumeRef.output = outV

C15_MuteSilencesCapture ==
    /\ [](isMutedRef = isMuted /\ MuteUnreadByPlayback)
    /\ [][ /\ (isMuted /\ \E a \in Att : OnAudioProcess(a, MeterSent)) =>
                 sent' = sent
           /\ ( /\ ~isMuted /\ isReady /\ shouldBeConnected
                /\ activeSession # 0 /\ sst[activeSession] = "open"
                /\ \E a \in Att : OnAudioProcess(a, MeterSent) ) =>
                 sent'[activeSession] = sent[activeSession] + 1
           /\ ( /\ isMuted /\ audioContextRef # 0
                /\ \E a \in Att : MeterTick(a, MaxLevel, MeterFrames) ) =>
                 /\ volumeRef'.input = 0
                 /\ volume' = volume \/ volume'.input = 0
           /\ ToggleMute =>
                 /\ isMuted' = ~isMuted
                 /\ UNCHANGED << sent, volume, volumeRef, voiceState,
                                 audioQueue, nextStartTime, src, isPlaying,
                                 isReady, shouldBeConnected, activeSession >>
         ]_vars

\* Muted, with a warm session installed and nothing forwarded on it, while
\* the meter has published a sample with sound on the output and none on
\* the input.
C15_Witness ==
    /\ isMuted /\ isReady /\ shouldBeConnected
    /\ activeSession # 0 /\ sst[activeSession] = "open"
    /\ sent[activeSession] = 0
    /\ frameCount[activeSession] = THROTTLE
    /\ volume = [input |-> 0, output |-> MaxLevel]
    /\ volumeRef = volume

\* C16: a captured frame is forwarded on a session only after that session
\* has reported open with intent and its warm-up delay has elapsed, and
\* ReadyFlag is not true while the session of the current attempt has not
\* reported open.
Opened(a) == sst[a] \in {"open", "closing"} \/ promise[a] = "resolved"

C16_ForwardOnlyAfterWarmUp ==
    /\ \A a \in Att :
          sent[a] > 0 => /\ Opened(a) /\ ~closeOnResolve[a] /\ ~warm[a]
    /\ isReady => nAtt > 0 /\ Opened(nAtt)

\* C17: for every command invocation received while ConnectionIntent is
\* true the external handler is invoked at most once and exactly one
\* acknowledgment with the invocation's id is sent back, whether the handler
\* returns or fails; the other invocations of the message are still served.
C17_CommandAcknowledged ==
    \A c \in Calls :
        /\ onCommandCalls[c] <= 1
        /\ onCommandCalls[c] <= functionCalls[c]
        /\ toolResponses[c] = functionCalls[c]

\* C18: an on-close event received while ConnectionIntent is true is
\* recovered like a transport error: with retries remaining RetryCounter is
\* incremented and a reconnection is scheduled with intent kept, and only on
\* exhaustion is the session abandoned with the terminal error.
C18_CloseRecoveredLikeError ==
    [][ (shouldBeConnected /\ \E a \in Att : OnClose(a)) =>
            IF retryCount < MAX_RETRIES
            THEN /\ retryCount' = retryCount + 1
                 /\ retryTimers' + catchTimers' = retryTimers + catchTimers + 1
                 /\ shouldBeConnected'
            ELSE /\ error' = ErrUnreachable
                 /\ ~shouldBeConnected' ]_vars

\* C19: a failure while acquiring the device resources (resume() of the
\* audio context or getUserMedia()) with ConnectionIntent true sets the
\* initialization error, tears everything down with ConnectionIntent false,
\* leaves RetryCounter unchanged and schedules no reconnection attempt.
C19_AcquisitionFailureFatal ==
    [][ (shouldBeConnected /\ \E a \in Att : AcquireFail(a)) =>
            /\ error' = ErrMalfunction
            /\ TornDown'
            /\ ~shouldBeConnected'
            /\ retryCount' = retryCount
            /\ retryTimers' = retryTimers /\ catchTimers' = catchTimers
            /\ nAtt' = nAtt ]_vars

\* The acquisition of a retry failed: the initialization error is shown,
\* the counter still holds the failure counted before, no timer is set.
C19_Witness ==
    /\ error = ErrMalfunction /\ ~shouldBeConnected /\ TornDown
    /\ retryCount > 0
    /\ retryTimers = 0 /\ catchTimers = 0

\* C20: the user-visible error is empty or one of two messages, the
\* initialization failure and the retry exhaustion, the latter whether the
\* exhausting failure is an on-error event or a rejected open.
C20_TwoErrorMessages ==
    error \in {NoError, ErrMalfunction, ErrUnreachable}

\* C21: RetryCounter increases only while ConnectionIntent is true, and a
\* disconnect() of the user resets it to 0.
C21_CounterResetByDisconnect ==
    [][ /\ retryCount' > retryCount => shouldBeConnected
        /\ UserDisconnect(FALSE) => retryCount' = 0 ]_vars

\* C22: VoiceState is never thinking, and a turn-complete marker leaves
\* VoiceState as it is or sets it to listening.
C22_NeverThinking ==
    /\ voiceState \in {"idle", "listening", "speaking"}
    /\ \A a \in Att :
          OnMessageCb(Cur, a, TRUE, 0).voiceState \in {voiceState, "listening"}

\* A turn-complete marker has set VoiceState to listening: no session is
\* marked connected and no buffer was ever queued, so neither on-open nor
\* a buffer's end has.
C22_Witness ==
    /\ voiceState = "listening"
    /\ ~isConnected /\ nSrc = 0

\* C23: the callbacks of a superseded session (the session of an attempt
\* older than the current one) do not change the state of the current
\* attempt: its on-close and on-error leave ConnectionIntent, RetryCounter,
\* the timers and the pipeline's references as they are, and its on-open
\* does not mark the hook connected.
C23_StaleCallbacksIgnored ==
    [][ \A a \in Att :
          (a < nAtt /\ (OnOpen(a) \/ OnClose(a) \/ OnError(a))) =>
              /\ shouldBeConnected' = shouldBeConnected
              /\ retryCount' = retryCount
              /\ retryTimers' = retryTimers
              /\ isConnected' = isConnected
              /\ isReady' = isReady
              /\ UNCHANGED << audioContextRef, mediaStreamRef, processorRef,
                              inputSourceRef, rafId, activeSession >> ]_vars

\* C24: on a transport error with retries remaining and ConnectionIntent
\* true, RetryCounter is incremented, ReadyFlag cleared and the resources
\* torn down before the backoff wait: when on-error returns and the backoff
\* begins, no session handle is installed, the device resource references
\* are absent and the playback queue is empty.
C24_TeardownBeforeBackoff ==
    [][ (shouldBeConnected /\ retryCount < MAX_RETRIES
            /\ \E a \in Att : OnError(a)) =>
              /\ retryCount' = retryCount + 1
              /\ ~isReady'
              /\ activeSession' = 0
              /\ RefsAbsent'
              /\ audioQueue' = << >> ]_vars

\* C25: when the transport open is rejected with retries remaining, the
\* pipeline of the rejected attempt (microphone stream, audio context,
\* meter loop) is released no later than the moment the backoff timer
\* starts the next provisioning attempt.
C25_RejectedPipelineReleased ==
    [][ (CatchTimer(RetryAttempts, BOOLEAN) /\ nAtt' = nAtt + 1) =>
            \A a \in Att :
                promise[a] = "rejected" =>
                    /\ stream'[a] # "live"
                    /\ ctxState'[a] # "running"
                    /\ ~loop'[a] ]_vars

\* The conditions under which the claim has a captured block forwarded.
Forwardable ==
    /\ ~isMuted /\ isReady /\ shouldBeConnected
    /\ activeSession # 0

\* C26: a captured block becomes exactly one outbound audio message on the
\* installed session when MuteFlag is false, ReadyFlag true, ConnectionIntent
\* true and a handle is installed, unless the send fails; in every other
\* case, a failing send included, the capture callback changes nothing.
C26_ForwardIffEnabled ==
    OnAudioProcessCb(Cur) =
        IF Forwardable /\ sst[activeSession] = "open"
        THEN [Cur EXCEPT !.sent[activeSession] = @ + 1]
        ELSE Cur

\* A block has been forwarded on the installed session.
C26_Witness ==
    /\ activeSession # 0
    /\ sent[activeSession] > 0

\* The entries of the playback queue that attempt a's session scheduled.
QueuedOf(a) == {i \in Range(audioQueue) : src[i].ctx = a}

\* The entry of a nonempty set that was scheduled last.
LastOf(S) == CHOOSE i \in S : \A j \in S : j <= i

\* C27: an audio frame of the current session is scheduled with start =
\* max(clock of the session's device, end of the session's previously
\* scheduled entry still queued) and end = start + duration; with none of
\* its entries queued (first frame of the session, or queue drained) it
\* starts at the current clock.
C27_FrameStartsAtMaxClockCursor ==
    \A d \in 1..PlayDur :
        ( /\ shouldBeConnected /\ activeSession # 0
          /\ sst[activeSession] = "open"
          /\ nSrc < PlaySources ) =>
            LET a == activeSession
                e == AudioCb(Cur, a, d).src[nSrc + 1]
            IN  /\ e.end = e.start + d
                /\ QueuedOf(a) = {} => e.start = ctxTime[a]
                /\ QueuedOf(a) # {} =>
                      e.start = Max(ctxTime[a], src[LastOf(QueuedOf(a))].end)

\* C28: when an acquisition (audio-context resume or getUserMedia) of
\* attempt a resolves while ConnectionIntent is false, the attempt ends
\* there: its stream is not live, its context is closed, no session is
\* opened, no meter loop runs, and no reference is written.
C28_CancelledAcquisitionEnds ==
    [][ \A a \in Att :
          (~shouldBeConnected /\ (ResumeOk(a) \/ GumOk(a))) =>
              /\ pc'[a] = "done"
              /\ stream'[a] # "live"
              /\ ctxState'[a] = "closed"
              /\ sst'[a] = "none"
              /\ ~loop'[a]
              /\ RefsAbsent'
              /\ UNCHANGED << inputAnalyserRef, outputAnalyserRef >> ]_vars

\* The session of attempt a can deliver an inbound message.
Delivering(a) == sst[a] \in {"open", "closing"} /\ promise[a] = "resolved"

\* C29: an inbound message delivered while ConnectionIntent is false
\* changes nothing: whatever it carries (turn-complete marker, audio frame,
\* tool call), the handler returns the state as it found it, so VoiceState,
\* the playback queue and the cursor are unchanged, the command handler is
\* not invoked and no acknowledgment is sent.
C29_MessageWithoutIntentIgnored ==
    ~shouldBeConnected =>
        \A a \in Att :
            /\ \A turnComplete \in BOOLEAN, d \in 0..MaxDur :
                  OnMessageCb(Cur, a, turnComplete, d) = Cur
            /\ \A calls \in Invocations(MaxBatch) :
                  OnToolCallCb(Cur, a, calls) = Cur

\* ConnectionIntent is false and a session that served commands before can
\* still deliver messages, tool calls among them.
C29_Witness ==
    /\ ~shouldBeConnected
    /\ \E a \in Att : Delivering(a)
    /\ \E c \in Calls : onCommandCalls[c] > 0
    /\ Invocations(MaxBatch) # {}

\* C30: an on-open that fires while ConnectionIntent is false leaves
\* isConnected, VoiceState and ReadyFlag unchanged, schedules no warm-up
\* timer and chains the close of its session, which is closed once its
\* promise has resolved; an on-open that fires while ConnectionIntent is true
\* sets isConnected and makes VoiceState listening.
C30_OnOpenRespectsIntent ==
    /\ [](\A a \in Att :
            (closeOnResolve[a] /\ promise[a] = "resolved") =>
                sst[a] \in {"closing", "closed"})
    /\ [][ \A a \in Att :
            OnOpen(a) =>
                IF ~shouldBeConnected
                THEN /\ closeOnResolve'[a]
                     /\ UNCHANGED << isConnected, voiceState, isReady, warm >>
                ELSE /\ isConnected'
                     /\ voiceState' = "listening"
                     /\ warm'[a] ]_vars

\* A session whose on-open fired without intent has been closed on the
\* resolution of its promise, and the hook is not marked connected.
C30_Witness ==
    /\ ~isConnected
    /\ \E a \in Att :
          closeOnResolve[a] /\ promise[a] = "resolved" /\ sst[a] = "closing"

\* Buffer i has played to its end and its onended is due.
Finished(i) ==
    /\ src[i].st = "scheduled"
    /\ ctxState[src[i].ctx] = "running"
    /\ ctxTime[src[i].ctx] >= src[i].end

\* C31: the onended of a buffer that finished playing removes it from the
\* playback queue; if that empties the queue, VoiceState becomes listening
\* and the cursor becomes the clock of the buffer's device; if entries
\* remain, VoiceState and the cursor are left as they are.
C31_OnEndedEffects ==
    \A i \in 1..nSrc :
        Finished(i) =>
            LET r == OnEndedCb(Cur, i)
            IN  /\ i \in Range(audioQueue)
                /\ i \notin Range(r.audioQueue)
                /\ Range(r.audioQueue) = Range(audioQueue) \ {i}
                /\ IF r.audioQueue = << >>
                   THEN /\ r.voiceState = "listening"
                        /\ r.nextStartTime = ctxTime[src[i].ctx]
                   ELSE /\ r.voiceState = voiceState
                        /\ r.nextStartTime = nextStartTime

\* A buffer has played to its end while a later one is still queued: the
\* hook is still speaking and the cursor is the end of the last entry.
C31_Witness ==
    \E i, j \in 1..nSrc :
        /\ src[i].st = "played" /\ src[j].st = "scheduled"
        /\ j \in Range(audioQueue) /\ i \notin Range(audioQueue)
        /\ voiceState = "speaking"
        /\ nextStartTime > ctxTime[src[j].ctx]

\* C32: a turn-complete marker received while ConnectionIntent is true
\* changes VoiceState only when the playback queue is empty, and then to
\* listening; with a buffer queued it leaves VoiceState as it is; it never
\* changes the queue, the buffers or the cursor.
C32_TurnCompleteEffects ==
    shouldBeConnected =>
        \A a \in Att :
            LET r == OnMessageCb(Cur, a, TRUE, 0)
            IN  /\ r.voiceState # voiceState =>
                      (audioQueue = << >> /\ r.voiceState = "listening")
                /\ audioQueue = << >> => r.voiceState = "listening"
                /\ r.audioQueue = audioQueue
                /\ r.src = src
                /\ r.nextStartTime = nextStartTime

\* A session can deliver a turn-complete marker while a buffer is queued
\* behind one that has played, and the hook is speaking.
C32_Witness ==
    /\ shouldBeConnected /\ voiceState = "speaking"
    /\ activeSession # 0 /\ Delivering(activeSession)
    /\ audioQueue # << >>
    /\ \E i \in 1..nSrc : src[i].st = "played"

\* The provisioning attempts whose meter loop has a frame scheduled.
RunningLoops == {a \in Att : loop[a]}

\* C33: at most one meter loop is running, and while the device resource
\* references are absent (after a full teardown, before the next attempt
\* makes resources live) both reported levels are {input 0, output 0}.
C33_OneMeterLoopSilentAfterTeardown ==
    /\ Cardinality(RunningLoops) <= 1
    /\ RefsAbsent => (volume = Silence /\ volumeRef = Silence)

\* C34: while the last-error value is non-empty, ConnectionIntent is false
\* and no session handle is installed; the error is cleared only by a
\* connect() that takes effect.
C34_ErrorImpliesTornDown ==
    /\ [](error # NoError => (~shouldBeConnected /\ activeSession = 0))
    /\ [][ (error # NoError /\ error' = NoError) =>
              (~shouldBeConnected /\ lastCall' = "connect") ]_vars

\* C35: since the last connect() that took effect, the timers have
\* re-invoked the provisioning routine at most MAX_RETRIES times.
C35_AtMostThreeReinvocations == reinvoked <= MAX_RETRIES

\* C36: isConnected implies that ConnectionIntent is true and that
\* VoiceState is listening or speaking.
C36_ConnectedImpliesIntent ==
    isConnected =>
        (shouldBeConnected /\ voiceState \in {"listening", "speaking"})

\* The hook is connected and a buffer is queued for playback.
C36_Witness ==
    /\ isConnected /\ voiceState = "speaking"
    /\ audioQueue # << >>

\* C37: while isConnected is true, VoiceState is speaking exactly when the
\* playback queue is non-empty, and the is-playing flag is true exactly when
\* the playback queue is non-empty.
C37_SpeakingIffQueued ==
    isConnected =>
        /\ voiceState = "speaking" <=> audioQueue # << >>
        /\ isPlaying <=> audioQueue # << >>

\* C38: MuteFlag changes only in a toggleMute() step, which flips it, and in
\* a connect() that takes effect, which resets it to false; every other
\* step (disconnect(), the timers' re-invocations, teardown on errors, the
\* transport callbacks) leaves it as it is.
C38_MuteChangedOnlyByUser ==
    [][ isMuted' # isMuted =>
          \/ ToggleMute
          \/ /\ ~shouldBeConnected /\ Connect(ControlAttempts, BOOLEAN)
             /\ ~isMuted' ]_vars

\* Muted in an attempt that a backoff timer started.
C38_Witness ==
    /\ isMuted /\ isMutedRef
    /\ shouldBeConnected /\ reinvoked > 0
    /\ lastCall = "connect"

\* C39: a tick of attempt a's meter loop, with an audio context referenced,
\* counts the tick, sets the unthrottled value to the levels it measured
\* (input 0 while muted) and publishes that value when the tick's number
\* is a multiple of THROTTLE; on every other tick the published value is
\* left as it is.
C39_ThrottledPublication ==
    \A a \in Att, inV, outV \in 0..MaxLevel :
        (loop[a] /\ audioContextRef # 0) =>
            LET r == UpdateVolume(Cur, a, inV, outV)
                n == frameCount[a] + 1
                measured ==
                    [input |-> IF isMutedRef \/ inputAnalyserRef = 0
                               THEN 0 ELSE inV,
                     output |-> IF outputAnalyserRef = 0 THEN 0 ELSE outV]
            IN  /\ r.frameCount[a] = n
                /\ r.volumeRef = measured
                /\ r.volume = IF n % THROTTLE = 0 THEN measured ELSE volume

\* The fifth tick of an unmuted loop has published the levels it measured,
\* sound on both sides.
C39_Witness ==
    \E a \in Att :
        /\ loop[a] /\ frameCount[a] = THROTTLE
        /\ ~isMuted
        /\ volume = [input |-> MaxLevel, output |-> MaxLevel]
        /\ volumeRef = volume

=============================================================================
